---- MODULE Spec2Model ----
(***************************************************************************)
(* Sub-asset resolution of the GLTF prefab loader (amethyst_gltf).         *)
(*                                                                         *)
(* A GltfPrefab fragment is a record of Option fields; an Option is the    *)
(* empty set (None) or a singleton (Some(x)).  The GltfMaterialSet world   *)
(* resource (mat_set) is a function from material indices to material      *)
(* descriptors.  One action is one call of GltfPrefab::load_sub_assets.    *)
(***************************************************************************)
EXTENDS Integers, Sequences, FiniteSets, TLC

\* ------------------------------------------------------------------ bounds
NFrag == 2            \* fragments (prefab entities) of the load
MaxMatId == 1         \* material indices are 0..MaxMatId
MaxMatPasses == 1     \* passes for which a material may report work
MaxAnimPasses == 1    \* passes for which the animation fragment may report work
LoopAnimPasses == 4   \* the same, in the runs of the caller's loop
MaxSubmits == 2       \* cap on the submissions of one fragment's mesh data
MaxPasses == 8        \* cap on the passes of the caller's loop
NEnt == 2             \* entities a fragment may be attached to
MaxCoord == 1         \* finite coordinates are 0..MaxCoord
MaxMoves == 1         \* cap on the move_to / scale_to calls of a run
MaxSize == 4          \* scale_to sizes are 1..MaxSize
MaxScenes == 4        \* a scene file has 0..MaxScenes scenes
NDims == 3            \* distinct screen dimensions
MaxAnims == 3         \* an animation set has 0..MaxAnims animations
MaxChildren == 2      \* children of the button
MaxEvents == 4        \* events written to the channel in a run
MaxCalls == 6         \* cap on the rebuild calls of a run

Frags == 1 .. NFrag
MatIds == 0 .. MaxMatId
Main == 1             \* the main entity of the prefab (index 0 in the source)
NoFail == 0 - 1       \* "no material fails in this call"
Stale == 0            \* origin of descriptors left in the cache by an earlier load

VARIABLES
    frags,        \* frags[f]: the GltfPrefab of entity f
    mat_set,      \* the GltfMaterialSet resource: index -> descriptor
    submitted,    \* submitted[f]: how often f's raw mesh went to the loader
    last,         \* the last load_sub_assets call: fragment and result
    start,        \* the fragments and the cache at the start (never changes)
    visited,      \* caller's loop: fragments visited in the current pass
    any_progress, \* caller's loop: OR of the results of the current pass
    passes,       \* caller's loop: completed passes
    status,       \* caller's loop: "running", "done" or "failed"
    world,        \* world[e]: the attachment made to entity e, if any
    ext_self,     \* a GltfNodeExtent being extended
    ext_prev,     \* the same extent before the last extension
    ext_other,    \* the argument of the last extension
    ext_axis,     \* the axis on which the extents of the run differ
    moved,        \* the last move_to / scale_to call and the number of calls
    graph,        \* the ExampleGraph, its last call and the calls so far
    scene,        \* a scene file's scenes, the options and the selection
    example,      \* the Example state, the Scene resource and its world
    ui            \* the UiButtonSystem, its event channel and its world

loadVars == <<frags, mat_set, submitted, last, start,
              visited, any_progress, passes, status>>

attachVars == <<world>>

extentVars == <<ext_self, ext_prev, ext_other, ext_axis>>

moveVars == <<moved>>

graphVars == <<graph>>

sceneVars == <<scene>>

exampleVars == <<example>>

uiVars == <<ui>>

vars == <<loadVars, attachVars, extentVars, moveVars, graphVars, sceneVars,
          exampleVars, uiVars>>

\* ------------------------------------------------------------ collections
EmptyMap == [i \in {} |-> 0]

\* HashMap::remove
MapRemove(m, k) == [i \in (DOMAIN m) \ {k} |-> m[i]]

\* texture handles and text colours
Handles == {"h1", "h2"}
Colors == {"white", "red"}

\* the colour of the button's SetTextColor and UnsetTextColor events
EventColors == {"red"}

\* HashMap::insert
MapInsert(m, k, v) == [i \in (DOMAIN m) \cup {k} |-> IF i = k THEN v ELSE m[i]]

\* every order in which HashMap::drain may yield the keys of m
DrainOrders(m) ==
    {o \in [1 .. Cardinality(DOMAIN m) -> DOMAIN m] :
        \A i, j \in DOMAIN o : i # j => o[i] # o[j]}

\* ------------------------------------------------- external collaborators
\* MaterialPrefab::load_sub_assets: one resolution step of a material
MaterialLoadSubAssets(m) ==
    [material |-> [m EXCEPT !.pending = IF @ > 0 THEN @ - 1 ELSE 0],
     ret |-> m.pending > 0]

\* MaterialPrefab::clone_loaded: a copy sharing the loaded sub-resources
CloneLoaded(m) == [origin |-> m.origin, idx |-> m.idx, pending |-> m.pending]

\* AnimatablePrefab::load_sub_assets: one resolution step of the animation
AnimLoadSubAssets(a) ==
    [animatable |-> [a EXCEPT !.pending = IF @ > 0 THEN @ - 1 ELSE 0],
     ret |-> a.pending > 0]

\* Loader::load_from_data: non-blocking, returns an in-flight handle
LoadFromData(data, n) == [data |-> data, n |-> n + 1]

\* ----------------------------------------------- load_sub_assets, by step
\* lines 244-248: clear the cache, drain the set into it, stop at a failure
RECURSIVE DrainInto(_, _, _, _, _)
DrainInto(mats, order, i, failMat, acc) ==
    IF i > Len(order) THEN acc
    ELSE IF order[i] = failMat
         THEN [acc EXCEPT !.ok = FALSE]
         ELSE LET r == MaterialLoadSubAssets(mats[order[i]])
              IN DrainInto(mats, order, i + 1, failMat,
                     [mat_set |-> MapInsert(acc.mat_set, order[i], r.material),
                      ret |-> acc.ret \/ r.ret,
                      ok |-> TRUE])

\* mutant: the cache is not cleared before the set is drained into it
ClearCache_Kept(ms) == ms

\* line 244
ClearCache(ms) == EmptyMap

\* mutant: the set is borrowed, not taken, and stays in the fragment
StepMaterials_NotTaken(self, ms, order, failMat) ==
    IF self.materials = {}
    THEN [self |-> self, mat_set |-> ms, ret |-> FALSE, ok |-> TRUE]
    ELSE LET mats == CHOOSE m \in self.materials : TRUE
             d == DrainInto(mats, order, 1, failMat,
                      [mat_set |-> ClearCache(ms), ret |-> FALSE, ok |-> TRUE])
         IN [self |-> self,
             mat_set |-> d.mat_set, ret |-> d.ret, ok |-> d.ok]

\* lines 243-249
StepMaterials(self, ms, order, failMat) ==
    IF self.materials = {}
    THEN [self |-> self, mat_set |-> ms, ret |-> FALSE, ok |-> TRUE]
    ELSE LET mats == CHOOSE m \in self.materials : TRUE
             d == DrainInto(mats, order, 1, failMat,
                      [mat_set |-> ClearCache(ms), ret |-> FALSE, ok |-> TRUE])
         IN [self |-> [self EXCEPT !.materials = {}],
             mat_set |-> d.mat_set, ret |-> d.ret, ok |-> d.ok]

\* mutant: the slot is assigned from the lookup's Option, so a miss clears it
StepLookup_MissClears(self, ms) ==
    IF self.material_id = {}
    THEN self
    ELSE LET material_id == CHOOSE i \in self.material_id : TRUE
         IN IF material_id \in DOMAIN ms
            THEN [self EXCEPT !.material = {CloneLoaded(ms[material_id])}]
            ELSE [self EXCEPT !.material = {}]

\* lines 250-254
StepLookup(self, ms) ==
    IF self.material_id = {}
    THEN self
    ELSE LET material_id == CHOOSE i \in self.material_id : TRUE
         IN IF material_id \in DOMAIN ms
            THEN [self EXCEPT !.material = {CloneLoaded(ms[material_id])}]
            ELSE self

\* mutant: the raw mesh data is read, not taken
StepMesh_NotTaken(self, ret, n) ==
    IF self.mesh = {}
    THEN [self |-> self, ret |-> ret, subs |-> 0]
    ELSE LET mesh == CHOOSE d \in self.mesh : TRUE
         IN [self |-> [self EXCEPT !.mesh_handle = {LoadFromData(mesh, n)}],
             ret |-> TRUE, subs |-> 1]

\* mutant: the handle is assigned from the taken Option on every pass
StepMesh_Mapped(self, ret, n) ==
    IF self.mesh = {}
    THEN [self |-> [self EXCEPT !.mesh_handle = {}], ret |-> ret, subs |-> 0]
    ELSE LET mesh == CHOOSE d \in self.mesh : TRUE
         IN [self |-> [self EXCEPT !.mesh = {},
                                   !.mesh_handle = {LoadFromData(mesh, n)}],
             ret |-> TRUE, subs |-> 1]

\* mutant: a submission does not set the progress flag
StepMesh_NoFlag(self, ret, n) ==
    IF self.mesh = {}
    THEN [self |-> self, ret |-> ret, subs |-> 0]
    ELSE LET mesh == CHOOSE d \in self.mesh : TRUE
         IN [self |-> [self EXCEPT !.mesh = {},
                                   !.mesh_handle = {LoadFromData(mesh, n)}],
             ret |-> ret, subs |-> 1]

\* lines 255-259
StepMesh(self, ret, n) ==
    IF self.mesh = {}
    THEN [self |-> self, ret |-> ret, subs |-> 0]
    ELSE LET mesh == CHOOSE d \in self.mesh : TRUE
         IN [self |-> [self EXCEPT !.mesh = {},
                                   !.mesh_handle = {LoadFromData(mesh, n)}],
             ret |-> TRUE, subs |-> 1]

\* lines 260-262
StepAnimatable(self, ret, failAnim) ==
    IF self.animatable = {}
    THEN [self |-> self, ret |-> ret, ok |-> TRUE]
    ELSE IF failAnim
         THEN [self |-> self, ret |-> ret, ok |-> FALSE]
         ELSE LET r == AnimLoadSubAssets(CHOOSE a \in self.animatable : TRUE)
              IN [self |-> [self EXCEPT !.animatable = {r.animatable}],
                  ret |-> ret \/ r.ret, ok |-> TRUE]

ResultOf(ok, ret) == IF ~ok THEN "Err" ELSE IF ret THEN "Ok_true" ELSE "Ok_false"

\* mutant: the material lookup runs before the material set is published
LoadSubAssets_LookupFirst(self, ms, n, order, failMat, failAnim) ==
    LET s2 == StepLookup(self, ms)
        s1 == StepMaterials(s2, ms, order, failMat)
    IN IF ~s1.ok
       THEN [self |-> s1.self, mat_set |-> s1.mat_set, subs |-> 0, res |-> "Err"]
       ELSE LET s3 == StepMesh(s1.self, s1.ret, n)
                s4 == StepAnimatable(s3.self, s3.ret, failAnim)
            IN [self |-> s4.self, mat_set |-> s1.mat_set, subs |-> s3.subs,
                res |-> ResultOf(s4.ok, s4.ret)]

\* mutant: the call returns as soon as the material set reported progress
LoadSubAssets_EarlyReturn(self, ms, n, order, failMat, failAnim) ==
    LET s1 == StepMaterials(self, ms, order, failMat)
    IN IF ~s1.ok
       THEN [self |-> s1.self, mat_set |-> s1.mat_set, subs |-> 0, res |-> "Err"]
       ELSE IF s1.ret
       THEN [self |-> s1.self, mat_set |-> s1.mat_set, subs |-> 0, res |-> "Ok_true"]
       ELSE LET s2 == StepLookup(s1.self, s1.mat_set)
                s3 == StepMesh(s2, s1.ret, n)
                s4 == StepAnimatable(s3.self, s3.ret, failAnim)
            IN [self |-> s4.self, mat_set |-> s1.mat_set, subs |-> s3.subs,
                res |-> ResultOf(s4.ok, s4.ret)]

\* mutant: a failure of the material set is returned at the end of the call
LoadSubAssets_LateError(self, ms, n, order, failMat, failAnim) ==
    LET s1 == StepMaterials(self, ms, order, failMat)
        s2 == StepLookup(s1.self, s1.mat_set)
        s3 == StepMesh(s2, s1.ret, n)
        s4 == StepAnimatable(s3.self, s3.ret, failAnim)
    IN [self |-> s4.self, mat_set |-> s1.mat_set, subs |-> s3.subs,
        res |-> ResultOf(s1.ok /\ s4.ok, s4.ret)]

\* mutant: a failure of the animation undoes the steps before it
LoadSubAssets_Rollback(self, ms, n, order, failMat, failAnim) ==
    LET s1 == StepMaterials(self, ms, order, failMat)
    IN IF ~s1.ok
       THEN [self |-> s1.self, mat_set |-> s1.mat_set, subs |-> 0, res |-> "Err"]
       ELSE LET s2 == StepLookup(s1.self, s1.mat_set)
                s3 == StepMesh(s2, s1.ret, n)
                s4 == StepAnimatable(s3.self, s3.ret, failAnim)
            IN IF ~s4.ok
               THEN [self |-> self, mat_set |-> ms, subs |-> 0, res |-> "Err"]
               ELSE [self |-> s4.self, mat_set |-> s1.mat_set, subs |-> s3.subs,
                     res |-> ResultOf(s4.ok, s4.ret)]

\* lines 235-264: one call, with the drain order and the failures of the
\* delegated resolutions as inputs; n is the number of earlier submissions
LoadSubAssets(self, ms, n, order, failMat, failAnim) ==
    LET s1 == StepMaterials(self, ms, order, failMat)
    IN IF ~s1.ok
       THEN [self |-> s1.self, mat_set |-> s1.mat_set, subs |-> 0, res |-> "Err"]
       ELSE LET s2 == StepLookup(s1.self, s1.mat_set)
                s3 == StepMesh(s2, s1.ret, n)
                s4 == StepAnimatable(s3.self, s3.ret, failAnim)
            IN [self |-> s4.self, mat_set |-> s1.mat_set, subs |-> s3.subs,
                res |-> ResultOf(s4.ok, s4.ret)]

\* the inputs of a call on fragment self
OrdersOf(self) ==
    IF self.materials = {} THEN {<<>>}
    ELSE DrainOrders(CHOOSE m \in self.materials : TRUE)

FailMatsOf(self) ==
    IF self.materials = {} THEN {NoFail}
    ELSE {NoFail} \cup DOMAIN (CHOOSE m \in self.materials : TRUE)

FailAnimsOf(self) == IF self.animatable = {} THEN {FALSE} ELSE BOOLEAN

\* ------------------------------------------------------------- f32 values
\* An f32 is one of: f32::MIN, the finite coordinates, f32::MAX and NaN.
\* Every comparison with NaN is false.
F32_MIN == 0 - 1
F32_MAX == MaxCoord + 1
NaN == MaxCoord + 2
F32s == (F32_MIN .. F32_MAX) \cup {NaN}

\* mutant: a total order that puts NaN above f32::MAX
Lt_Total(a, b) == a < b

\* a < b on f32
Lt(a, b) == a # NaN /\ b # NaN /\ a < b

\* a > b on f32
Gt(a, b) == Lt(b, a)

\* a <= b on f32
Le(a, b) == a # NaN /\ b # NaN /\ a <= b

\* ----------------------------------------------------------- GltfNodeExtent
NAxes == 3
Axes == 0 .. (NAxes - 1)

\* Point3::from(Vector3::from_element(v))
FromElement(v) == [i \in Axes |-> v]

\* GltfNodeExtent::default()
DefaultExtent == [start |-> FromElement(F32_MAX), end |-> FromElement(F32_MIN)]

\* mutant: the end only follows the start
extend_EndFromStart(self, other) ==
    [start |-> [i \in Axes |-> IF Lt(other.start[i], self.start[i])
                               THEN other.start[i] ELSE self.start[i]],
     end |-> [i \in Axes |-> IF Gt(other.start[i], self.end[i])
                             THEN other.start[i] ELSE self.end[i]]]

\* mutant: the other extent replaces this one
extend_Replace(self, other) == other

\* lines 118-127: self after self.extend(&other)
extend(self, other) ==
    [start |-> [i \in Axes |-> IF Lt(other.start[i], self.start[i])
                               THEN other.start[i] ELSE self.start[i]],
     end |-> [i \in Axes |-> IF Gt(other.end[i], self.end[i])
                             THEN other.end[i] ELSE self.end[i]]]

\* mutant: a range only moves the start
extend_range_StartOnly(self, other) ==
    [start |-> [i \in Axes |-> IF Lt(other.start[i], self.start[i])
                               THEN other.start[i] ELSE self.start[i]],
     end |-> self.end]

\* lines 106-115: self after self.extend_range(&other), other a Range<[f32; 3]>
extend_range(self, other) ==
    [start |-> [i \in Axes |-> IF Lt(other.start[i], self.start[i])
                               THEN other.start[i] ELSE self.start[i]],
     end |-> [i \in Axes |-> IF Gt(other.end[i], self.end[i])
                             THEN other.end[i] ELSE self.end[i]]]

\* lines 150-157: GltfNodeExtent::from(range), each array made a point
from(range) ==
    [start |-> [i \in Axes |-> range.start[i]],
     end |-> [i \in Axes |-> range.end[i]]]

\* lines 140-147
valid(self) == ~\E i \in Axes : Gt(self.start[i], self.end[i])

\* ------------------------------------------------- move_to and scale_to
\* In the runs of move_to and scale_to the coordinates are small whole
\* numbers, on which f32 addition and subtraction are exact; a quotient is
\* kept as a fraction in lowest terms (den = 0: an infinity or NaN).
Abs(n) == IF n < 0 THEN 0 - n ELSE n

Sgn(n) == IF n < 0 THEN 0 - 1 ELSE IF n > 0 THEN 1 ELSE 0

RECURSIVE Gcd(_, _)
Gcd(a, b) == IF b = 0 THEN a ELSE Gcd(b, a % b)

\* n / d
Quot(n, d) ==
    IF d = 0
    THEN [num |-> Sgn(n), den |-> 0]
    ELSE LET g == Gcd(Abs(n), Abs(d))
         IN [num |-> (Sgn(d) * n) \div g, den |-> Abs(d) \div g]

\* a whole number as a fraction
Num(n) == Quot(n, 1)

\* a + b and a - b on fractions
QAdd(a, b) == Quot(a.num * b.den + b.num * a.den, a.den * b.den)

QSub(a, b) == Quot(a.num * b.den - b.num * a.den, a.den * b.den)

\* f32::max
Max2(a, b) == IF a > b THEN a ELSE b

\* mutant: the centroid is the start corner
centroid_Start(self) == [i \in Axes |-> Num(self.start[i])]

\* lines 130-132: (self.start + self.end.coords) / 2.
centroid(self) == [i \in Axes |-> Quot(self.start[i] + self.end[i], 2)]

\* lines 135-137: self.end - self.start
distance(self) == [i \in Axes |-> self.end[i] - self.start[i]]

\* Transform::default(): no translation, unit scale
TransformDefault == [translation |-> FromElement(Num(0)), scale |-> FromElement(Num(1))]

\* Option::get_or_insert_with(Transform::default)
GetOrInsertDefault(opt) == IF opt = {} THEN TransformDefault ELSE CHOOSE x \in opt : TRUE

\* mutant: the transform is created before the extent is looked at
move_to_InsertsFirst(self, target) ==
    IF self.extent = {}
    THEN [self EXCEPT !.transform = {GetOrInsertDefault(self.transform)}]
    ELSE LET extent == CHOOSE e \in self.extent : TRUE
             tr == GetOrInsertDefault(self.transform)
         IN [self EXCEPT !.transform =
                {[tr EXCEPT !.translation =
                     [i \in Axes |-> QAdd(tr.translation[i],
                                          QSub(Num(target[i]), centroid(extent)[i]))]]}]

\* lines 64-71
move_to(self, target) ==
    IF self.extent = {}
    THEN self
    ELSE LET extent == CHOOSE e \in self.extent : TRUE
             tr == GetOrInsertDefault(self.transform)
         IN [self EXCEPT !.transform =
                {[tr EXCEPT !.translation =
                     [i \in Axes |-> QAdd(tr.translation[i],
                                          QSub(Num(target[i]), centroid(extent)[i]))]]}]

\* mutant: the scale is taken from the smallest axis distance
scale_to_MinAxis(self, max_distance) ==
    IF self.extent = {}
    THEN self
    ELSE LET d == distance(CHOOSE e \in self.extent : TRUE)
             min == 0 - Max2(Max2(0 - d[0], 0 - d[1]), 0 - d[2])
             scale == Quot(max_distance, min)
             tr == GetOrInsertDefault(self.transform)
         IN [self EXCEPT !.transform = {[tr EXCEPT !.scale = FromElement(scale)]}]

\* lines 74-83
scale_to(self, max_distance) ==
    IF self.extent = {}
    THEN self
    ELSE LET d == distance(CHOOSE e \in self.extent : TRUE)
             max == Max2(Max2(d[0], d[1]), d[2])
             scale == Quot(max_distance, max)
             tr == GetOrInsertDefault(self.transform)
         IN [self EXCEPT !.transform = {[tr EXCEPT !.scale = FromElement(scale)]}]

\* ---------------------------------------------------------------- entities
Entities == 1 .. NEnt

\* the aspects of a fragment, in the order add_to_entity attaches them
AspectOrder ==
    <<"transform", "mesh_handle", "name", "material", "animatable",
      "skinnable", "extent">>

\* the aspects attached through their own add_to_entity, which may fail for
\* reasons of its own; the mesh handle and the extent are plain inserts
Delegated == {"transform", "name", "material", "animatable", "skinnable"}

\* lines 39-55: the fields of GltfPrefab that become components
Aspects ==
    {"transform", "mesh_handle", "name", "material", "animatable",
     "skinnable", "extent"}

\* the components of one entity: aspect -> value
NoComponents == [a \in {} |-> 0]

\* WriteStorage::insert and the delegated add_to_entity: fail on an entity
\* that is not alive; a delegated one fails also when it is the one chosen
AttachFails(a, alive, failAt) == ~alive \/ (a \in Delegated /\ a = failAt)

\* mutant: a failure is remembered and returned after the last aspect
RECURSIVE AttachFrom_Continue(_, _, _, _, _)
AttachFrom_Continue(self, comps, i, alive, failAt) ==
    IF i > Len(AspectOrder)
    THEN LET bad == {k \in DOMAIN AspectOrder :
                        /\ self[AspectOrder[k]] # {}
                        /\ AttachFails(AspectOrder[k], alive, failAt)}
         IN IF bad = {}
            THEN [comps |-> comps, res |-> "Ok", failed |-> "none"]
            ELSE [comps |-> comps, res |-> "Err",
                  failed |-> AspectOrder[CHOOSE k \in bad :
                                            \A h \in bad : k <= h]]
    ELSE LET a == AspectOrder[i]
         IN IF self[a] = {} \/ AttachFails(a, alive, failAt)
            THEN AttachFrom_Continue(self, comps, i + 1, alive, failAt)
            ELSE AttachFrom_Continue(self,
                     MapInsert(comps, a, CHOOSE v \in self[a] : TRUE),
                     i + 1, alive, failAt)

\* lines 211-232: the aspects from position i on, each `if let Some(..)` with
\* its `?`
RECURSIVE AttachFrom(_, _, _, _, _)
AttachFrom(self, comps, i, alive, failAt) ==
    IF i > Len(AspectOrder)
    THEN [comps |-> comps, res |-> "Ok", failed |-> "none"]
    ELSE LET a == AspectOrder[i]
         IN IF self[a] = {}
            THEN AttachFrom(self, comps, i + 1, alive, failAt)
            ELSE IF AttachFails(a, alive, failAt)
                 THEN [comps |-> comps, res |-> "Err", failed |-> a]
                 ELSE AttachFrom(self,
                          MapInsert(comps, a, CHOOSE v \in self[a] : TRUE),
                          i + 1, alive, failAt)

\* mutant: the transform is not attached
add_to_entity_NoTransform(self, comps, alive, failAt) ==
    LET r == AttachFrom(self, comps, 2, alive, failAt)
    IN [self |-> self, comps |-> r.comps, res |-> r.res, failed |-> r.failed]

\* mutant: the mesh handle is moved out of the fragment
add_to_entity_TakesHandle(self, comps, alive, failAt) ==
    LET r == AttachFrom(self, comps, 1, alive, failAt)
    IN [self |-> [self EXCEPT !.mesh_handle = {}],
        comps |-> r.comps, res |-> r.res, failed |-> r.failed]

\* lines 202-233: one call; self is borrowed immutably
add_to_entity(self, comps, alive, failAt) ==
    LET r == AttachFrom(self, comps, 1, alive, failAt)
    IN [self |-> self, comps |-> r.comps, res |-> r.res, failed |-> r.failed]

\* the delegated attachments that may be chosen to fail
FailAtsOf(self) == {"none"} \cup {a \in Delegated : self[a] # {}}

\* no entity has been given a fragment
NothingAttached ==
    world = [e \in Entities |->
                [frag |-> 0, comps |-> NoComponents, res |-> "none",
                 failed |-> "none"]]

\* no extent is being built
NoExtent ==
    /\ ext_self = DefaultExtent
    /\ ext_prev = DefaultExtent
    /\ ext_other = [kind |-> "none", val |-> DefaultExtent]
    /\ ext_axis = 0

\* no move_to or scale_to has been called
NotMoved ==
    moved = [op |-> "none", frag |-> 0, target |-> FromElement(0),
             max_distance |-> 0, n |-> 0]

\* Example::new() (main.rs, lines 71-78) and Scene::default(), in a world
\* without entities.  Beside the fields of Example (entity, initialised,
\* progress: the tracker's completion while the tracker is kept) and of
\* Scene (animation_index) the record keeps the world: the scene entities
\* created (created), whether the tagged entity exists (tagged), whether it
\* has an animation set (has_set) of how many animations (count), and the
\* state of each animation in its control set (controls); and the last call
\* (op), what it returned (ret) and the index it looked up (looked).
NewExample ==
    [entity |-> {}, initialised |-> FALSE, progress |-> {},
     animation_index |-> 0,
     created |-> 0, tagged |-> FALSE, has_set |-> FALSE, count |-> 0,
     controls |-> [i \in 0 .. (MaxAnims - 1) |-> "none"],
     op |-> "new", ret |-> "None", looked |-> {}]

NoExample == example = NewExample

\* the target of the button events, and the children the hierarchy gives it
Button == "button"
Children == 1 .. MaxChildren

\* UiButtonSystem::new() (system.rs, lines 63-73) in a world where the target
\* has no image and its children no text, and with no event written.  Beside
\* the system's fields the record keeps the world (image: the target's image
\* handle, text: each child's text colour) and the reader's view of the
\* channel (pending: the events written and not yet read; early: an event
\* was written before a reader was registered; written: events written).
\* It also keeps what the checks look back on: the events handled by the
\* last run (done), the last two events handled (ev, ev2) and the world and
\* maps before each of them (prev, prev2), the image at the start (image0),
\* the handles set in order (tex_log) and, for each handle and colour, the
\* sets not yet unset (tex_out, col_out).
NewUi ==
    [event_reader |-> {}, set_textures |-> EmptyMap, set_text_colors |-> EmptyMap,
     image |-> {}, text |-> [c \in Children |-> {}],
     pending |-> <<>>, early |-> FALSE, written |-> 0,
     op |-> "new", done |-> <<>>,
     ev |-> {}, ev2 |-> {}, prev |-> {}, prev2 |-> {},
     image0 |-> {}, tex_log |-> <<>>,
     tex_out |-> [h \in Handles |-> 0], col_out |-> [c \in Colors |-> 0]]

NoUi == ui = NewUi

\* ExampleGraph::new() (main.rs, lines 615-622)
ExampleGraphNew == [last_dimensions |-> {}, dirty |-> TRUE]

\* the graph creator before its first call.  Beside the object (self) the
\* record keeps the last call (op), the dimensions the last rebuild saw
\* (seen) and what it returned (ret), whether builder has run (built),
\* whether a rebuild saw other dimensions than the rebuild before it since
\* builder last ran (changed), and the number of rebuild calls (calls).
NewGraph ==
    [self |-> ExampleGraphNew,
     op |-> "none", seen |-> {}, ret |-> FALSE,
     built |-> FALSE, changed |-> FALSE, calls |-> 0]

\* the runs without the example's render graph
NoGraph == graph = NewGraph

\* the runs without a scene selection
NoScene ==
    scene = [scene_index |-> {}, default_scene |-> {}, scenes |-> 0,
             outcome |-> "none", loaded |-> {}]

\* ------------------------------------------------------------------- Init
Descriptors(o, i) == [origin : {o}, idx : {i}, pending : 0 .. MaxMatPasses]

\* the material sets fragment f may own over the indices ids: keyed by index
MaterialSets(f, ids) ==
    UNION {{m \in [D -> UNION {Descriptors(f, i) : i \in D}] :
              \A i \in D : m[i].idx = i} : D \in SUBSET ids}

\* the cache when the load starts: empty (the first load), or the resolved
\* descriptors an earlier load left in the resource
StaleCaches(ids) ==
    {EmptyMap, [i \in ids |-> [origin |-> Stale, idx |-> i, pending |-> 0]]}

Animatables(n) == {{}} \cup {{[pending |-> k]} : k \in 0 .. n}

\* GltfPrefab as the format leaves it: no handle, no resolved material
Fragment(f, mesh, mid, anim, mats) ==
    [transform |-> {}, mesh |-> mesh, mesh_handle |-> {}, name |-> {},
     material |-> {}, animatable |-> anim, skinnable |-> {}, extent |-> {},
     materials |-> mats, material_id |-> mid]

\* GltfPrefab::default(): every field None
DefaultFragment == Fragment(0, {}, {}, {}, {})

\* the fragments entity f may be parsed as; animations go to the main entity
Fragments(f, ids, animPasses) ==
    {Fragment(f, mesh, mid, anim, mats) :
        mesh \in {{}, {f}},
        mid \in {{}} \cup {{i} : i \in ids},
        anim \in IF f = Main THEN Animatables(animPasses) ELSE {{}},
        mats \in {{}} \cup {{m} : m \in MaterialSets(f, ids)}}

\* the index every fragment uses in the loads whose fragments share a material
SharedIds == {0}

\* The loads checked have at most two non-empty fragments, at most one of
\* them owning the material set:
\*   one fragment of any shape over all material indices, or
\*   two fragments of any shape that use the shared index.
InitWith(animPasses, stale) ==
    /\ \/ /\ \E f \in Frags :
               \E fr \in Fragments(f, MatIds, animPasses) :
                   frags = [h \in Frags |-> IF h = f THEN fr ELSE DefaultFragment]
          /\ mat_set \in IF stale THEN StaleCaches(MatIds) ELSE {EmptyMap}
       \/ /\ \E f, g \in Frags :
               /\ f < g
               /\ \E fr \in Fragments(f, SharedIds, animPasses) :
                    \E gr \in Fragments(g, SharedIds, animPasses) :
                      /\ fr.materials = {} \/ gr.materials = {}
                      /\ frags = [h \in Frags |-> IF h = f THEN fr
                                                  ELSE IF h = g THEN gr
                                                  ELSE DefaultFragment]
          /\ mat_set \in IF stale THEN StaleCaches(SharedIds) ELSE {EmptyMap}
    /\ submitted = [f \in Frags |-> 0]
    /\ last = [frag |-> 0, res |-> "none"]
    /\ start = [frags |-> frags, mat_set |-> mat_set]
    /\ visited = {}
    /\ any_progress = FALSE
    /\ passes = 0
    /\ status = "running"
    /\ NothingAttached
    /\ NoExtent
    /\ NotMoved
    /\ NoExample
    /\ NoUi
    /\ NoGraph
    /\ NoScene

Init == InitWith(MaxAnimPasses, TRUE)

InitLoop == InitWith(LoopAnimPasses, FALSE)

\* ---------------------------------------------------------------- actions
\* one call of load_sub_assets on fragment f: the fragment, the cache, the
\* loader's submissions and the call's result
Call(f) ==
    /\ submitted[f] < MaxSubmits
    /\ \E order \in OrdersOf(frags[f]) :
         \E failMat \in FailMatsOf(frags[f]) :
           \E failAnim \in FailAnimsOf(frags[f]) :
             LET r == LoadSubAssets(frags[f], mat_set, submitted[f],
                                    order, failMat, failAnim)
             IN /\ frags' = [frags EXCEPT ![f] = r.self]
                /\ mat_set' = r.mat_set
                /\ submitted' = [submitted EXCEPT ![f] = @ + r.subs]
                /\ last' = [frag |-> f, res |-> r.res]

\* a call on any fragment, in any order, at any time (also after a failure)
Resolve(f) ==
    /\ Call(f)
    /\ UNCHANGED <<start, visited, any_progress, passes, status>>
    /\ UNCHANGED <<attachVars, extentVars, moveVars, graphVars, sceneVars,
                   exampleVars, uiVars>>

Next == \E f \in Frags : Resolve(f)

Spec == Init /\ [][Next]_vars

\* The caller's loop: every fragment once per pass, in any order; a failure
\* abandons the load; a full pass without progress completes it.
Visit(f) ==
    /\ status = "running"
    /\ passes < MaxPasses
    /\ f \notin visited
    /\ Call(f)
    /\ IF last'.res = "Err"
       THEN /\ status' = "failed"
            /\ UNCHANGED <<visited, any_progress>>
       ELSE /\ status' = status
            /\ visited' = visited \cup {f}
            /\ any_progress' = (any_progress \/ last'.res = "Ok_true")
    /\ UNCHANGED <<start, passes>>
    /\ UNCHANGED <<attachVars, extentVars, moveVars, graphVars, sceneVars,
                   exampleVars, uiVars>>

EndPass ==
    /\ status = "running"
    /\ visited = Frags
    /\ passes' = passes + 1
    /\ IF any_progress
       THEN /\ visited' = {}
            /\ any_progress' = FALSE
            /\ status' = status
       ELSE /\ status' = "done"
            /\ UNCHANGED <<visited, any_progress>>
    /\ UNCHANGED <<frags, mat_set, submitted, last, start>>
    /\ UNCHANGED <<attachVars, extentVars, moveVars, graphVars, sceneVars,
                   exampleVars, uiVars>>

NextLoop == (\E f \in Frags : Visit(f)) \/ EndPass

SpecLoop == InitLoop /\ [][NextLoop]_vars

\* A load whose materials need more than one resolution step: the main
\* entity owns a set over all indices, each material with up to
\* MaxMatPasses + 1 steps of work left.
DeepDescriptors(o, i) == [origin : {o}, idx : {i}, pending : 0 .. (MaxMatPasses + 1)]

DeepSets(f, ids) ==
    UNION {{m \in [D -> UNION {DeepDescriptors(f, i) : i \in D}] :
              \A i \in D : m[i].idx = i} : D \in SUBSET ids}

InitDeep ==
    /\ \E mesh \in {{}, {Main}} :
         \E mid \in {{}} \cup {{i} : i \in MatIds} :
           \E anim \in Animatables(MaxAnimPasses) :
             \E mats \in DeepSets(Main, MatIds) :
               frags = [h \in Frags |->
                           IF h = Main
                           THEN Fragment(Main, mesh, mid, anim, {mats})
                           ELSE DefaultFragment]
    /\ mat_set = EmptyMap
    /\ submitted = [f \in Frags |-> 0]
    /\ last = [frag |-> 0, res |-> "none"]
    /\ start = [frags |-> frags, mat_set |-> mat_set]
    /\ visited = {}
    /\ any_progress = FALSE
    /\ passes = 0
    /\ status = "running"
    /\ NothingAttached
    /\ NoExtent
    /\ NotMoved
    /\ NoExample
    /\ NoUi
    /\ NoGraph
    /\ NoScene

SpecDeep == InitDeep /\ [][Next]_vars

\* ------------------------------------------------------------- attachment
\* the (mesh, mesh_handle) pairs of a fragment: nothing, raw data, a handle
MeshStates(f) ==
    {[mesh |-> {}, mesh_handle |-> {}],
     [mesh |-> {f}, mesh_handle |-> {}],
     [mesh |-> {}, mesh_handle |-> {LoadFromData(f, 0)}]}

\* the (material_id, material) pairs: no material, an index still to be
\* looked up, an index with its resolved descriptor
MaterialStates(f) ==
    {[material_id |-> {}, material |-> {}],
     [material_id |-> {0}, material |-> {}],
     [material_id |-> {0},
      material |-> {CloneLoaded([origin |-> f, idx |-> 0, pending |-> 0])}]}

\* the fragments handed to add_to_entity: any aspects, resolved or not
AttachFragments(f) ==
    {[transform |-> tr, mesh |-> ms.mesh, mesh_handle |-> ms.mesh_handle,
      name |-> nm, material |-> mt.material, animatable |-> an,
      skinnable |-> sk, extent |-> ex,
      materials |-> {}, material_id |-> mt.material_id] :
        tr \in {{}, {f}}, ms \in MeshStates(f), nm \in {{}, {f}},
        mt \in MaterialStates(f), an \in {{}, {[pending |-> 0]}},
        sk \in {{}, {f}},
        ex \in {{}, {[start |-> FromElement(0), end |-> FromElement(MaxCoord)]}}}

\* the main entity's fragment has any shape, the others are empty
InitAttach ==
    /\ \E fr \in AttachFragments(Main) :
         frags = [h \in Frags |-> IF h = Main THEN fr ELSE DefaultFragment]
    /\ mat_set \in StaleCaches(MatIds) \ {EmptyMap}
    /\ submitted = [f \in Frags |-> 0]
    /\ last = [frag |-> 0, res |-> "none"]
    /\ start = [frags |-> frags, mat_set |-> mat_set]
    /\ visited = {}
    /\ any_progress = FALSE
    /\ passes = 0
    /\ status = "running"
    /\ NothingAttached
    /\ NoExtent
    /\ NotMoved
    /\ NoExample
    /\ NoUi
    /\ NoGraph
    /\ NoScene

\* the prefab system hands fragment f to entity e, once per entity; the
\* entity may be dead by then
Attach(f, e) ==
    /\ world[e].res = "none"
    /\ \E alive \in BOOLEAN :
         \E failAt \in FailAtsOf(frags[f]) :
           LET r == add_to_entity(frags[f], world[e].comps, alive, failAt)
           IN /\ frags' = [frags EXCEPT ![f] = r.self]
              /\ world' = [world EXCEPT ![e] =
                              [frag |-> f, comps |-> r.comps, res |-> r.res,
                               failed |-> r.failed]]
    /\ UNCHANGED <<mat_set, submitted, last, start,
                   visited, any_progress, passes, status>>
    /\ UNCHANGED <<extentVars, moveVars, graphVars, sceneVars,
                   exampleVars, uiVars>>

NextAttach == \E f \in Frags : \E e \in Entities : Attach(f, e)

SpecAttach == InitAttach /\ [][NextAttach]_vars

\* ---------------------------------------------------- moving and scaling
Coords == (0 - MaxCoord) .. MaxCoord

\* the extents of the fragments moved: any start on the diagonal, any end
\* that leaves the diagonal on at most one axis (valid or not)
MoveExtents ==
    {[start |-> FromElement(s),
      end |-> [i \in Axes |-> IF i = k THEN e1 ELSE e0]] :
        s \in Coords, e0 \in Coords, e1 \in Coords, k \in Axes}

Targets == {FromElement(c) : c \in Coords}

Sizes == 1 .. MaxSize

\* the transform a fragment may carry: none, the default, or one that was
\* translated before
MoveTransforms ==
    {{}, {TransformDefault},
     {[TransformDefault EXCEPT !.translation = FromElement(Num(1))]}}

\* the main entity's fragment with or without an extent and a transform
InitMove ==
    /\ \E ex \in {{}} \cup {{e} : e \in MoveExtents} :
         \E tr \in MoveTransforms :
           frags = [h \in Frags |->
                       IF h = Main
                       THEN [DefaultFragment EXCEPT !.extent = ex, !.transform = tr]
                       ELSE DefaultFragment]
    /\ mat_set = EmptyMap
    /\ submitted = [f \in Frags |-> 0]
    /\ last = [frag |-> 0, res |-> "none"]
    /\ start = [frags |-> frags, mat_set |-> mat_set]
    /\ visited = {}
    /\ any_progress = FALSE
    /\ passes = 0
    /\ status = "running"
    /\ NothingAttached
    /\ NoExtent
    /\ NotMoved
    /\ NoExample
    /\ NoUi
    /\ NoGraph
    /\ NoScene

MoveTo(f, target) ==
    /\ moved.n < MaxMoves
    /\ frags' = [frags EXCEPT ![f] = move_to(frags[f], target)]
    /\ moved' = [op |-> "move_to", frag |-> f, target |-> target,
                 max_distance |-> 0, n |-> moved.n + 1]
    /\ UNCHANGED <<mat_set, submitted, last, start,
                   visited, any_progress, passes, status>>
    /\ UNCHANGED <<attachVars, extentVars, graphVars, sceneVars,
                   exampleVars, uiVars>>

ScaleTo(f, max_distance) ==
    /\ moved.n < MaxMoves
    /\ frags' = [frags EXCEPT ![f] = scale_to(frags[f], max_distance)]
    /\ moved' = [op |-> "scale_to", frag |-> f, target |-> FromElement(0),
                 max_distance |-> max_distance, n |-> moved.n + 1]
    /\ UNCHANGED <<mat_set, submitted, last, start,
                   visited, any_progress, passes, status>>
    /\ UNCHANGED <<attachVars, extentVars, graphVars, sceneVars,
                   exampleVars, uiVars>>

NextMove ==
    \/ \E f \in Frags : \E target \in Targets : MoveTo(f, target)
    \/ \E f \in Frags : \E max_distance \in Sizes : ScaleTo(f, max_distance)

SpecMove == InitMove /\ [][NextMove]_vars

\* -------------------------------------------------------- scene selection
\* an Option<usize> over the scene indices
SceneOptions(n) == {{}} \cup {{i} : i \in 0 .. (n - 1)}

\* mutant: without an index and a default the first scene is loaded
select_scene_First(scene_index, default_scene, scenes) ==
    IF scene_index # {}
    THEN [outcome |-> "loaded", loaded |-> scene_index]
    ELSE IF default_scene # {}
         THEN [outcome |-> "loaded", loaded |-> default_scene]
         ELSE IF scenes >= 1
              THEN [outcome |-> "loaded", loaded |-> {0}]
              ELSE [outcome |-> "ambiguous", loaded |-> {}]

\* the selection rule of the scene format
select_scene(scene_index, default_scene, scenes) ==
    IF scene_index # {}
    THEN [outcome |-> "loaded", loaded |-> scene_index]
    ELSE IF default_scene # {}
         THEN [outcome |-> "loaded", loaded |-> default_scene]
         ELSE IF scenes = 1
              THEN [outcome |-> "loaded", loaded |-> {0}]
              ELSE [outcome |-> "ambiguous", loaded |-> {}]

\* a file with some scenes and maybe a default one, and the option
InitScene ==
    /\ frags = [h \in Frags |-> DefaultFragment]
    /\ mat_set = EmptyMap
    /\ submitted = [f \in Frags |-> 0]
    /\ last = [frag |-> 0, res |-> "none"]
    /\ start = [frags |-> frags, mat_set |-> mat_set]
    /\ visited = {}
    /\ any_progress = FALSE
    /\ passes = 0
    /\ status = "running"
    /\ NothingAttached
    /\ NoExtent
    /\ NotMoved
    /\ NoExample
    /\ NoUi
    /\ NoGraph
    /\ \E scenes \in 0 .. MaxScenes :
         \E default_scene \in SceneOptions(scenes) :
           \E scene_index \in SceneOptions(MaxScenes) :
             scene = [scene_index |-> scene_index, default_scene |-> default_scene,
                      scenes |-> scenes, outcome |-> "none", loaded |-> {}]

SelectScene ==
    /\ scene.outcome = "none"
    /\ LET r == select_scene(scene.scene_index, scene.default_scene, scene.scenes)
       IN scene' = [scene EXCEPT !.outcome = r.outcome, !.loaded = r.loaded]
    /\ UNCHANGED <<loadVars, attachVars, extentVars, moveVars, graphVars,
                   exampleVars, uiVars>>

NextScene == SelectScene

SpecScene == InitScene /\ [][NextScene]_vars

\* ----------------------------------------------------------- ExampleGraph
Dims == 1 .. NDims

\* mutant: a call that sees other dimensions returns the dirty flag
rebuild_ReturnsDirty(self, new_dimensions) ==
    IF self.last_dimensions # new_dimensions
    THEN [self |-> [last_dimensions |-> new_dimensions, dirty |-> TRUE],
          ret |-> TRUE]
    ELSE [self |-> self, ret |-> self.dirty]

\* main.rs, lines 625-635
rebuild(self, new_dimensions) ==
    IF self.last_dimensions # new_dimensions
    THEN [self |-> [last_dimensions |-> new_dimensions, dirty |-> TRUE],
          ret |-> FALSE]
    ELSE [self |-> self, ret |-> self.dirty]

\* mutant: the flag is left as it is
builder_KeepsDirty(self) == self

\* main.rs, lines 637-639: self.dirty = false (the graph it builds is not
\* modelled)
builder(self) == [self EXCEPT !.dirty = FALSE]

\* the renderer's first frame: a new ExampleGraph
InitGraph ==
    /\ frags = [h \in Frags |-> DefaultFragment]
    /\ mat_set = EmptyMap
    /\ submitted = [f \in Frags |-> 0]
    /\ last = [frag |-> 0, res |-> "none"]
    /\ start = [frags |-> frags, mat_set |-> mat_set]
    /\ visited = {}
    /\ any_progress = FALSE
    /\ passes = 0
    /\ status = "running"
    /\ NothingAttached
    /\ NoExtent
    /\ NotMoved
    /\ NoExample
    /\ NoUi
    /\ NoGraph
    /\ NoScene

\* rebuild(res), the ScreenDimensions resource holding d.  The resource is
\* inserted when the window system is set up and is expected by the systems
\* that run before the renderer (main.rs, line 124: ReadExpect), so
\* try_fetch finds it on every call.
Rebuild(d) ==
    /\ graph.calls < MaxCalls
    /\ LET r == rebuild(graph.self, {d})
       IN graph' = [self |-> r.self, op |-> "rebuild", seen |-> {d},
                    ret |-> r.ret, built |-> graph.built,
                    changed |-> (graph.changed \/ graph.seen # {d}),
                    calls |-> graph.calls + 1]
    /\ UNCHANGED <<loadVars, attachVars, extentVars, moveVars, sceneVars,
                   exampleVars, uiVars>>

\* builder(factory, res)
Builder ==
    /\ graph' = [graph EXCEPT !.self = builder(graph.self), !.op = "builder",
                               !.built = TRUE, !.changed = FALSE]
    /\ UNCHANGED <<loadVars, attachVars, extentVars, moveVars, sceneVars,
                   exampleVars, uiVars>>

NextGraph == (\E d \in Dims : Rebuild(d)) \/ Builder

SpecGraph == InitGraph /\ [][NextGraph]_vars

\* ---------------------------------------------------------------- Example
\* the loader variables of a run that loads nothing
NothingLoaded ==
    /\ frags = [h \in Frags |-> DefaultFragment]
    /\ mat_set = EmptyMap
    /\ submitted = [f \in Frags |-> 0]
    /\ last = [frag |-> 0, res |-> "none"]
    /\ start = [frags |-> frags, mat_set |-> mat_set]
    /\ visited = {}
    /\ any_progress = FALSE
    /\ passes = 0
    /\ status = "running"

\* the entity the tag finder returns
Tagged == "tagged"

\* the keys of an animation set of count animations: the indices of the
\* animations in the file
AnimationKeys(count) == 0 .. (count - 1)

\* mutant: the tracker is kept after the scene entity was created
update_KeepsTracker(self) ==
    IF self.initialised
    THEN [self EXCEPT !.op = "update", !.ret = "None"]
    ELSE IF self.progress = {"Failed"}
         THEN [self EXCEPT !.op = "update", !.ret = "Quit"]
         ELSE LET complete == self.progress = {"Complete"}
                  found == self.entity = {} /\ self.tagged
              IN [self EXCEPT
                    !.created = IF complete THEN @ + 1 ELSE @,
                    !.entity = IF found THEN {Tagged} ELSE @,
                    !.initialised = IF found THEN TRUE ELSE @,
                    !.op = "update", !.ret = "None"]

\* main.rs, lines 399-461: Example::update.  The tag finder sees the world
\* as it was before this update's create_entity took effect in the prefab
\* system.  The closing loop over sprite animation sets finds none (the
\* example creates no sprite) and is left out.
update(self) ==
    IF self.initialised
    THEN [self EXCEPT !.op = "update", !.ret = "None"]
    ELSE IF self.progress = {"Failed"}
         THEN [self EXCEPT !.op = "update", !.ret = "Quit"]
         ELSE LET complete == self.progress = {"Complete"}
                  found == self.entity = {} /\ self.tagged
              IN [self EXCEPT
                    !.created = IF complete THEN @ + 1 ELSE @,
                    !.progress = IF complete THEN {} ELSE @,
                    !.entity = IF found THEN {Tagged} ELSE @,
                    !.initialised = IF found THEN TRUE ELSE @,
                    !.op = "update", !.ret = "None"]

\* AnimationControlSet::toggle: a running animation pauses, a paused one runs
toggle(state) == IF state = "running" THEN "paused" ELSE "running"

\* mutant: the index is not wrapped
toggle_or_cycle_animation_NoWrap(self) ==
    IF self.entity = {} \/ ~self.has_set
    THEN [self EXCEPT !.op = "toggle", !.looked = {}]
    ELSE IF self.count > self.animation_index
         THEN LET i == self.animation_index
              IN [self EXCEPT
                    !.controls[i] = IF @ = "none" THEN "running" ELSE toggle(@),
                    !.animation_index = i + 1,
                    !.op = "toggle", !.looked = {i}]
         ELSE [self EXCEPT !.op = "toggle", !.looked = {}]

\* main.rs, lines 464-492, called with self.entity and the Scene resource
toggle_or_cycle_animation(self) ==
    IF self.entity = {} \/ ~self.has_set
    THEN [self EXCEPT !.op = "toggle", !.looked = {}]
    ELSE IF self.count > self.animation_index
         THEN LET i == self.animation_index
              IN IF i \notin AnimationKeys(self.count)
                 THEN [self EXCEPT !.op = "panic", !.looked = {i}]
                 ELSE [self EXCEPT
                         !.controls[i] = IF @ = "none" THEN "running"
                                         ELSE toggle(@),
                         !.animation_index = IF i + 1 >= self.count
                                             THEN 0 ELSE i + 1,
                         !.op = "toggle", !.looked = {i}]
         ELSE [self EXCEPT !.op = "toggle", !.looked = {}]

\* a new Example; the scene file gives the tagged entity an animation set
\* of some animations, or none
InitExample ==
    /\ NothingLoaded
    /\ NothingAttached
    /\ NoExtent
    /\ NotMoved
    /\ NoGraph
    /\ NoScene
    /\ NoUi
    /\ \E has_set \in BOOLEAN :
         \E count \in 0 .. MaxAnims :
           /\ ~has_set => count = 0
           /\ example = [NewExample EXCEPT !.has_set = has_set, !.count = count]

Running == example.op \notin {"new", "panic"} /\ example.ret # "Quit"

\* main.rs, lines 147-152: on_start makes the tracker and starts the loads
OnStart ==
    /\ example.op = "new"
    /\ example' = [example EXCEPT !.progress = {"Loading"}, !.op = "on_start"]
    /\ UNCHANGED <<loadVars, attachVars, extentVars, moveVars, graphVars,
                   sceneVars, uiVars>>

\* the loads tracked by the counter end, all well or one failed
Loaded(completion) ==
    /\ Running
    /\ example.progress = {"Loading"}
    /\ example' = [example EXCEPT !.progress = {completion}, !.op = "loaded"]
    /\ UNCHANGED <<loadVars, attachVars, extentVars, moveVars, graphVars,
                   sceneVars, uiVars>>

\* the prefab system builds the entities of the scene entity's prefab
Instantiate ==
    /\ Running
    /\ example.created > 0 /\ ~example.tagged
    /\ example' = [example EXCEPT !.tagged = TRUE, !.op = "instantiate"]
    /\ UNCHANGED <<loadVars, attachVars, extentVars, moveVars, graphVars,
                   sceneVars, uiVars>>

\* a frame's update
Update ==
    /\ Running
    /\ example' = update(example)
    /\ UNCHANGED <<loadVars, attachVars, extentVars, moveVars, graphVars,
                   sceneVars, uiVars>>

\* main.rs, lines 383-390: handle_event with the space key down
Space ==
    /\ Running
    /\ example' = toggle_or_cycle_animation(example)
    /\ UNCHANGED <<loadVars, attachVars, extentVars, moveVars, graphVars,
                   sceneVars, uiVars>>

NextExample ==
    \/ OnStart
    \/ \E completion \in {"Complete", "Failed"} : Loaded(completion)
    \/ Instantiate
    \/ Update
    \/ Space

SpecExample == InitExample /\ [][NextExample]_vars

\* ----------------------------------------------------------- UiButtonSystem
\* system.rs, lines 21-26: ActionChangeStack::new
ActionChangeStackNew(initial_value) ==
    [initial_value |-> initial_value, stack |-> <<>>]

\* lines 28-30
add(self, change) == [self EXCEPT !.stack = Append(@, change)]

\* lines 32-38: the stack after remove(change): the first equal element, if
\* any, is taken out
remove(self, change) ==
    LET found == {i \in 1 .. Len(self.stack) : self.stack[i] = change}
    IN IF found = {}
       THEN self
       ELSE LET idx == CHOOSE i \in found : \A j \in found : i <= j
            IN [self EXCEPT !.stack = SubSeq(@, 1, idx - 1) \o
                                      SubSeq(@, idx + 1, Len(@))]

\* lines 40-42
is_empty(self) == self.stack = <<>>

\* mutant: the oldest change is the current one
current_Oldest(self) ==
    IF self.stack = <<>> THEN self.initial_value ELSE self.stack[1]

\* lines 44-54
current(self) ==
    IF self.stack = <<>> THEN self.initial_value ELSE self.stack[Len(self.stack)]

\* lines 105-114: the body of the SetTextColor loop for one child
set_text_color_child(s, target, color, child) ==
    IF s.text[child] = {}
    THEN s
    ELSE LET old == CHOOSE c \in s.text[child] : TRUE
             st == IF target \in DOMAIN s.set_text_colors
                   THEN s.set_text_colors[target]
                   ELSE ActionChangeStackNew(old)
         IN [s EXCEPT !.set_text_colors = MapInsert(@, target, add(st, color)),
                      !.text[child] = {color}]

\* lines 119-135: the body of the UnsetTextColor loop for one child
unset_text_color_child(s, target, color, child) ==
    IF s.text[child] = {}
    THEN s
    ELSE IF target \notin DOMAIN s.set_text_colors
         THEN s
         ELSE LET st == remove(s.set_text_colors[target], color)
              IN [s EXCEPT !.set_text_colors = IF is_empty(st)
                                               THEN MapRemove(@, target)
                                               ELSE MapInsert(@, target, st),
                           !.text[child] = {current(st)}]

\* lines 104 and 118: for &child in hierarchy.children(target), from child on
RECURSIVE for_children(_, _, _, _, _)
for_children(s, target, event_type, color, child) ==
    IF child > MaxChildren
    THEN s
    ELSE for_children(IF event_type = "SetTextColor"
                      THEN set_text_color_child(s, target, color, child)
                      ELSE unset_text_color_child(s, target, color, child),
                      target, event_type, color, child + 1)

\* lines 138-147
set_texture(s, target, texture_handle) ==
    IF s.image = {}
    THEN s
    ELSE LET old == CHOOSE h \in s.image : TRUE
             st == IF target \in DOMAIN s.set_textures
                   THEN s.set_textures[target]
                   ELSE ActionChangeStackNew(old)
         IN [s EXCEPT !.set_textures = MapInsert(@, target, add(st, texture_handle)),
                      !.image = {texture_handle}]

\* mutant: an unset without a tracked change is taken as a set
unset_texture_Tracks(s, target, texture_handle) ==
    IF s.image = {}
    THEN s
    ELSE IF target \notin DOMAIN s.set_textures
         THEN set_texture(s, target, texture_handle)
         ELSE LET st == remove(s.set_textures[target], texture_handle)
              IN [s EXCEPT !.set_textures = IF is_empty(st)
                                            THEN MapRemove(@, target)
                                            ELSE MapInsert(@, target, st),
                           !.image = {current(st)}]

\* mutant: the entry is kept when its stack is empty
unset_texture_KeepsEmpty(s, target, texture_handle) ==
    IF s.image = {}
    THEN s
    ELSE IF target \notin DOMAIN s.set_textures
         THEN s
         ELSE LET st == remove(s.set_textures[target], texture_handle)
              IN [s EXCEPT !.set_textures = MapInsert(@, target, st),
                           !.image = {current(st)}]

\* lines 148-164
unset_texture(s, target, texture_handle) ==
    IF s.image = {}
    THEN s
    ELSE IF target \notin DOMAIN s.set_textures
         THEN s
         ELSE LET st == remove(s.set_textures[target], texture_handle)
              IN [s EXCEPT !.set_textures = IF is_empty(st)
                                            THEN MapRemove(@, target)
                                            ELSE MapInsert(@, target, st),
                           !.image = {current(st)}]

\* lines 102-165: the match on the event type
handle(s, event) ==
    CASE event.event_type \in {"SetTextColor", "UnsetTextColor"} ->
           for_children(s, event.target, event.event_type, event.value, 1)
      [] event.event_type = "SetTexture" ->
           set_texture(s, event.target, event.value)
      [] event.event_type = "UnsetTexture" ->
           unset_texture(s, event.target, event.value)

\* the button events
Events ==
    {[event_type |-> ty, value |-> v, target |-> Button] :
        ty \in {"SetTextColor", "UnsetTextColor"}, v \in EventColors}
    \cup
    {[event_type |-> ty, value |-> v, target |-> Button] :
        ty \in {"SetTexture", "UnsetTexture"}, v \in Handles}

\* the world and the tracking maps
Snapshot(s) ==
    [image |-> s.image, text |-> s.text,
     set_textures |-> s.set_textures, set_text_colors |-> s.set_text_colors]

\* the target has a text child
HasText(s) == \E c \in Children : s.text[c] # {}

\* the sets not yet unset after the event: a set on a target with an image
\* (a text child) adds one, an unset takes one earlier set of its value away
Outstanding(out, has, event, set_type, unset_type) ==
    IF ~has THEN out
    ELSE IF event.event_type = set_type
         THEN [out EXCEPT ![event.value] = @ + 1]
         ELSE IF event.event_type = unset_type /\ out[event.value] > 0
              THEN [out EXCEPT ![event.value] = @ - 1]
              ELSE out

\* one turn of the loop of line 101: the event is handled and noted
handle_event(s, event) ==
    [handle(s, event) EXCEPT
        !.done = Append(s.done, event),
        !.ev2 = s.ev, !.ev = {event},
        !.prev2 = s.prev, !.prev = {Snapshot(s)},
        !.tex_log = IF event.event_type = "SetTexture" /\ s.image # {}
                    THEN Append(@, event.value) ELSE @,
        !.tex_out = Outstanding(@, s.image # {}, event,
                                "SetTexture", "UnsetTexture"),
        !.col_out = Outstanding(@, HasText(s), event,
                                "SetTextColor", "UnsetTextColor")]

\* line 101: for event in button_events.read(event_reader)
RECURSIVE for_events(_, _)
for_events(s, events) ==
    IF events = <<>>
    THEN s
    ELSE for_events(handle_event(s, Head(events)), Tail(events))

\* mutant: the first unread event is skipped
run_SkipsFirst(self) ==
    IF self.event_reader = {}
    THEN [self EXCEPT !.op = "panic"]
    ELSE [for_events([self EXCEPT !.done = <<>>],
                     IF self.pending = <<>> THEN <<>> ELSE Tail(self.pending))
             EXCEPT !.pending = <<>>, !.op = "run"]

\* lines 92-167: UiButtonSystem::run
run(self) ==
    IF self.event_reader = {}
    THEN [self EXCEPT !.op = "panic"]
    ELSE [for_events([self EXCEPT !.done = <<>>], self.pending)
             EXCEPT !.pending = <<>>, !.op = "run"]

\* lines 84-90: setup registers a reader, which sees the events written
\* from now on
setup(self) == [self EXCEPT !.event_reader = {1}, !.op = "setup"]

\* the colour of a child's text at the start: white and red in turn
TextColor(child) == IF child % 2 = 1 THEN "white" ELSE "red"

\* a new system; the button has an image or none, its first children a
\* text each and the others none.  Children without text are skipped by
\* the loops wherever they stand, and the handles are told apart by
\* equality only, so the image is h1 without loss.
InitUi ==
    /\ NothingLoaded
    /\ NothingAttached
    /\ NoExtent
    /\ NotMoved
    /\ NoGraph
    /\ NoScene
    /\ NoExample
    /\ \E image \in {{}, {"h1"}} :
         \E k \in 0 .. MaxChildren :
           ui = [NewUi EXCEPT
                   !.image = image, !.image0 = image,
                   !.text = [c \in Children |->
                               IF c <= k THEN {TextColor(c)} ELSE {}]]

Setup ==
    /\ ui.op # "panic"
    /\ ui.event_reader = {}
    /\ ui' = setup(ui)
    /\ UNCHANGED <<loadVars, attachVars, extentVars, moveVars, graphVars,
                   sceneVars, exampleVars>>

\* an event is written to the channel: a registered reader will read it
Write(event) ==
    /\ ui.op # "panic"
    /\ ui.written < MaxEvents
    /\ ui' = IF ui.event_reader = {}
             THEN [ui EXCEPT !.early = TRUE, !.written = @ + 1, !.op = "write"]
             ELSE [ui EXCEPT !.pending = Append(@, event), !.written = @ + 1,
                             !.op = "write"]
    /\ UNCHANGED <<loadVars, attachVars, extentVars, moveVars, graphVars,
                   sceneVars, exampleVars>>

Run ==
    /\ ui.op # "panic"
    /\ ui' = run(ui)
    /\ UNCHANGED <<loadVars, attachVars, extentVars, moveVars, graphVars,
                   sceneVars, exampleVars>>

NextUi == Setup \/ (\E event \in Events : Write(event)) \/ Run

SpecUi == InitUi /\ [][NextUi]_vars

\* ---------------------------------------------------------------- extents
\* what the axes other than the one under study hold: the default's values,
\* or the origin
Baselines == {[start |-> F32_MAX, end |-> F32_MIN], [start |-> 0, end |-> 0]}

\* the extents (and ranges) that hold any two f32 on axis k and a baseline
\* on the other axes
AxisExtents(k) ==
    {[start |-> [i \in Axes |-> IF i = k THEN s ELSE b.start],
      end |-> [i \in Axes |-> IF i = k THEN e ELSE b.end]] :
        s \in F32s, e \in F32s, b \in Baselines}

\* the ranges merged: any two f32 on axis k, the origin on the other axes
AxisRanges(k) ==
    {[start |-> [i \in Axes |-> IF i = k THEN s ELSE 0],
      end |-> [i \in Axes |-> IF i = k THEN e ELSE 0]] :
        s \in F32s, e \in F32s}

\* an extent of any content (the fields are public), nothing merged yet
InitExtent ==
    /\ frags = [h \in Frags |-> DefaultFragment]
    /\ mat_set = EmptyMap
    /\ submitted = [f \in Frags |-> 0]
    /\ last = [frag |-> 0, res |-> "none"]
    /\ start = [frags |-> frags, mat_set |-> mat_set]
    /\ visited = {}
    /\ any_progress = FALSE
    /\ passes = 0
    /\ status = "running"
    /\ NothingAttached
    /\ ext_axis \in Axes
    /\ ext_self \in AxisExtents(ext_axis)
    /\ ext_prev = ext_self
    /\ ext_other = [kind |-> "none", val |-> DefaultExtent]
    /\ NotMoved
    /\ NoExample
    /\ NoUi
    /\ NoGraph
    /\ NoScene

\* self.extend(&other)
Extend(other) ==
    /\ ext_self' = extend(ext_self, other)
    /\ ext_prev' = ext_self
    /\ ext_other' = [kind |-> "extent", val |-> other]
    /\ UNCHANGED <<loadVars, attachVars, ext_axis, moveVars, graphVars, sceneVars,
                   exampleVars, uiVars>>

\* self.extend_range(&other)
ExtendRange(other) ==
    /\ ext_self' = extend_range(ext_self, other)
    /\ ext_prev' = ext_self
    /\ ext_other' = [kind |-> "range", val |-> other]
    /\ UNCHANGED <<loadVars, attachVars, ext_axis, moveVars, graphVars, sceneVars,
                   exampleVars, uiVars>>

NextExtent ==
    \/ \E other \in AxisExtents(ext_axis) : Extend(other)
    \/ \E other \in AxisRanges(ext_axis) : ExtendRange(other)

SpecExtent == InitExtent /\ [][NextExtent]_vars

\* The scene tree of the runs: a chain from the main entity, the deepest
\* tree over the fragments (0: the main entity has none above it).
Parent(f) == f - 1

\* levels of the scene tree: nodes on the longest path from the main entity
RECURSIVE Level(_)
Level(f) == IF Parent(f) = 0 THEN 1 ELSE 1 + Level(Parent(f))

Depth == CHOOSE d \in 1 .. NFrag :
            /\ \E f \in Frags : Level(f) = d
            /\ \A f \in Frags : Level(f) <= d

\* ------------------------------------------------------- claim vocabulary
\* the material set a fragment owns (empty when it owns none)
OwnedSet(self) == IF self.materials = {} THEN EmptyMap
                  ELSE CHOOSE m \in self.materials : TRUE

\* the material set of the load: the one its owning fragment was parsed with
LoadSet == IF \E f \in Frags : start.frags[f].materials # {}
           THEN OwnedSet(start.frags[CHOOSE f \in Frags : start.frags[f].materials # {}])
           ELSE EmptyMap

\* the delegated resolutions of a fragment that report work in its next call
MaterialWork(self) == \E i \in DOMAIN OwnedSet(self) : OwnedSet(self)[i].pending > 0

AnimWork(self) == \E a \in self.animatable : a.pending > 0

\* passes for which the load's animation fragment reports work
AnimPasses == IF start.frags[Main].animatable = {} THEN 0
              ELSE (CHOOSE a \in start.frags[Main].animatable : TRUE).pending

\* N raw meshes and M distinct material indices of the load as parsed
RawMeshes == Cardinality({f \in Frags : start.frags[f].mesh # {}})

UsedMaterials == Cardinality(UNION {start.frags[f].material_id : f \in Frags})

Succeeded(res) == res \in {"Ok_true", "Ok_false"}

\* ----------------------------------------------------------------- claims
\* C1: over any sequence of passes a fragment's raw mesh data is submitted
\* exactly once if it started with raw mesh data (once a pass has reached the
\* submission and taken the data) and never if it started without; no later
\* pass submits it again.
C1_SubmittedExactlyOnce ==
    \A f \in Frags :
        submitted[f] = IF start.frags[f].mesh # {} /\ frags[f].mesh = {} THEN 1 ELSE 0

\* a later successful pass on a fragment whose mesh was submitted, beside a
\* fragment without mesh data that was resolved too
C1_Witness ==
    \E f, g \in Frags :
        /\ submitted[f] = 1 /\ last = [frag |-> f, res |-> "Ok_false"]
        /\ start.frags[g].mesh = {} /\ frags[g].material # {} /\ submitted[g] = 0

\* C2: once a fragment holds a mesh handle, every later pass leaves that
\* handle in place and the raw mesh data absent.
C2_HandleMonotonic ==
    [][\A f \in Frags :
          frags[f].mesh_handle # {} =>
              /\ frags'[f].mesh_handle = frags[f].mesh_handle
              /\ frags'[f].mesh = {}]_vars

\* a pass on a fragment that already held its handle (the submitting pass
\* itself reports progress, so this one came later)
C2_Witness ==
    \E f \in Frags :
        /\ frags[f].mesh_handle # {} /\ frags[f].mesh = {}
        /\ last.frag = f /\ last.res = "Ok_false"
        /\ frags[f].material # {}

\* C3: a fragment never holds raw mesh data and a mesh handle at once,
\* whatever passes ran, succeeding or failing.
C3_DataXorHandle ==
    \A f \in Frags : ~(frags[f].mesh # {} /\ frags[f].mesh_handle # {})

\* a handle produced by a pass that then failed in the animation step
C3_Witness ==
    \E f \in Frags :
        /\ frags[f].mesh_handle # {} /\ last = [frag |-> f, res |-> "Err"]
        /\ \E g \in Frags : frags[g].mesh # {}

C5_SameDescriptor ==
    \A f, g \in Frags :
        (/\ frags[f].material_id # {}
         /\ frags[f].material_id = frags[g].material_id
         /\ frags[f].material # {} /\ frags[g].material # {})
        => frags[f].material = frags[g].material

\* C6: when the caller's loop completes, every fragment whose material index
\* is a key of the load's material set has its material slot populated.
C6_AllPopulated ==
    status = "done" =>
        \A f \in Frags :
            (frags[f].material_id # {} /\ frags[f].material_id \subseteq DOMAIN LoadSet)
            => frags[f].material # {}

\* C7: a successful pass returns true iff a material of the fragment's set
\* reported work, or raw mesh data was submitted, or the animation fragment
\* reported work; a material copied from the cache adds nothing.
C7_ReturnsOrOfFlags ==
    [][\A f \in Frags :
          (last'.frag = f /\ Succeeded(last'.res)) =>
              ((last'.res = "Ok_true") <=>
                  (MaterialWork(frags[f]) \/ frags[f].mesh # {} \/ AnimWork(frags[f])))]_vars

\* a pass that copied a material from the cache and reported no progress,
\* after a mesh submission elsewhere
C7_Witness ==
    \E f, g \in Frags :
        /\ last = [frag |-> f, res |-> "Ok_false"]
        /\ frags[f].material # {} /\ start.frags[f].mesh = {}
        /\ g # f /\ submitted[g] = 1

\* C8: a successful pass on a fragment that owns the material set, carries
\* an index of that set and holds raw mesh data leaves it fully resolved.
C8_SinglePassResolves ==
    [][\A f \in Frags :
          (/\ last'.frag = f /\ Succeeded(last'.res)
           /\ frags[f].materials # {}
           /\ frags[f].material_id # {}
           /\ frags[f].material_id \subseteq DOMAIN OwnedSet(frags[f])
           /\ frags[f].mesh # {})
          => /\ \E m \in frags'[f].material :
                   m.origin = f /\ {m.idx} = frags[f].material_id
             /\ frags'[f].mesh_handle # {}
             /\ frags'[f].mesh = {}
             /\ frags'[f].materials = {}]_vars

\* the owner resolved while the cache still held an earlier load's entries
C8_Witness ==
    \E f \in Frags :
        /\ start.frags[f].materials # {} /\ start.frags[f].mesh # {}
        /\ start.frags[f].material_id \subseteq DOMAIN OwnedSet(start.frags[f])
        /\ start.mat_set # EmptyMap
        /\ Succeeded(last.res) /\ last.frag = f
        /\ \E m \in frags[f].material : m.origin = f
        /\ frags[f].mesh_handle # {} /\ frags[f].materials = {}
        /\ \A g \in Frags \ {f} : frags[g] = start.frags[g]

\* C9: after a successful pass on a fragment that owns a material set the
\* cache holds exactly that set: the same keys, each mapped to that
\* fragment's descriptor, and nothing of what it held before.
C9_CacheReplaced ==
    [][\A f \in Frags :
          (last'.frag = f /\ Succeeded(last'.res) /\ frags[f].materials # {})
          => /\ DOMAIN mat_set' = DOMAIN OwnedSet(frags[f])
             /\ \A i \in DOMAIN mat_set' :
                   /\ mat_set'[i].origin = OwnedSet(frags[f])[i].origin
                   /\ mat_set'[i].idx = i
                   /\ mat_set'[i].origin # Stale]_vars

\* a set with fewer keys than the earlier load's cache was published
C9_Witness ==
    \E f \in Frags :
        /\ start.frags[f].materials # {} /\ frags[f].materials = {}
        /\ last.frag = f /\ Succeeded(last.res)
        /\ DOMAIN start.mat_set = MatIds
        /\ DOMAIN mat_set = DOMAIN OwnedSet(start.frags[f])
        /\ DOMAIN mat_set # MatIds /\ DOMAIN mat_set # {}

\* C10: a pass that fails on a fragment owning a material set leaves the
\* cache either as it was or holding the complete new set.
C10_AtomicReplace ==
    [][\A f \in Frags :
          (last'.frag = f /\ last'.res = "Err" /\ frags[f].materials # {})
          => \/ mat_set' = mat_set
             \/ DOMAIN mat_set' = DOMAIN OwnedSet(frags[f])]_vars

\* Two loads share the resource: the main entity's prefab is one load, the
\* other fragments are a second one.
LoadOf(f) == IF f = Main THEN 1 ELSE 2

\* both loads start with the default (empty) cache resource and their passes
\* interleave freely
InitLoads == InitWith(MaxAnimPasses, FALSE)

SpecLoads == InitLoads /\ [][Next]_vars

\* the call on f failed in the material step: an entry of f's set is missing
FailedInMaterials(f) ==
    /\ last'.frag = f /\ last'.res = "Err"
    /\ frags[f].materials # {}
    /\ DOMAIN mat_set' # DOMAIN OwnedSet(frags[f])

\* C11: with two loads sharing the cache, a fragment's material slot only
\* ever holds a descriptor of its own load's material set.
C11_OwnLoadOnly ==
    \A f \in Frags : \A m \in frags[f].material :
        m.origin \in Frags /\ LoadOf(m.origin) = LoadOf(f)

\* C12: a lookup of an index that is not in the cache is no error: the slot
\* stays as it was, a call without delegated resolutions succeeds, and the
\* result is decided by the other steps alone.
C12_MissIsNotAnError ==
    [][\A f \in Frags :
          (/\ last'.frag = f
           /\ frags[f].material_id # {}
           /\ ~(frags[f].material_id \subseteq DOMAIN mat_set'))
          => /\ frags'[f].material = frags[f].material
             /\ (frags[f].materials = {} /\ frags[f].animatable = {})
                    => Succeeded(last'.res)
             /\ Succeeded(last'.res) =>
                    ((last'.res = "Ok_true") <=>
                        (MaterialWork(frags[f]) \/ frags[f].mesh # {}
                            \/ AnimWork(frags[f])))]_vars

\* a populated slot kept through a miss, after the cache was replaced
C12_Witness ==
    \E f \in Frags :
        /\ last = [frag |-> f, res |-> "Ok_false"]
        /\ frags[f].material # {} /\ frags[f].material_id # {}
        /\ ~(frags[f].material_id \subseteq DOMAIN mat_set)

\* C13: a failure in the material step ends the call at once (the raw mesh
\* data stays unsubmitted, the slot and the animation untouched); any other
\* failure is the animation's, which is left as it was.
C13_FailureReturnsAtOnce ==
    [][\A f \in Frags :
          (last'.frag = f /\ last'.res = "Err") =>
              IF FailedInMaterials(f)
              THEN /\ frags'[f].mesh = frags[f].mesh
                   /\ frags'[f].mesh_handle = frags[f].mesh_handle
                   /\ frags'[f].material = frags[f].material
                   /\ frags'[f].animatable = frags[f].animatable
                   /\ submitted' = submitted
              ELSE /\ frags[f].animatable # {}
                   /\ frags'[f].animatable = frags[f].animatable]_vars

\* a failed call that published the fragment's own index and then stopped:
\* raw data still there, slot still empty
C13_Witness ==
    \E f \in Frags :
        /\ last = [frag |-> f, res |-> "Err"]
        /\ start.frags[f].materials # {} /\ frags[f].materials = {}
        /\ frags[f].mesh # {} /\ submitted[f] = 0
        /\ frags[f].material = {} /\ frags[f].material_id # {}
        /\ frags[f].material_id \subseteq DOMAIN mat_set

\* the aspects present in a fragment
Present(self) == {a \in Aspects : self[a] # {}}

\* position of an aspect in the order transform, mesh, name, material,
\* animation, skin, extent
Rank(a) == CHOOSE i \in DOMAIN AspectOrder : AspectOrder[i] = a

\* not fully resolved: raw mesh data, or an index without its material
Unresolved(self) ==
    self.mesh # {} \/ (self.material_id # {} /\ self.material = {})

\* C14: a successful attach gives the entity exactly the components of the
\* aspects present in the fragment, with the fragment's values.
C14_ExactlyThePresentAspects ==
    \A e \in Entities :
        world[e].res = "Ok" =>
            LET self == frags[world[e].frag]
            IN /\ DOMAIN world[e].comps = Present(self)
               /\ \A a \in Present(self) : world[e].comps[a] \in self[a]

\* transform, material and extent without a mesh handle: those three only
C14_Witness ==
    \E e \in Entities :
        /\ world[e].res = "Ok"
        /\ frags[world[e].frag].mesh_handle = {}
        /\ DOMAIN world[e].comps = {"transform", "material", "extent"}

\* C15: attaching a fragment that is not fully resolved fails and attaches
\* nothing.
C15_UnresolvedFailsFast ==
    \A e \in Entities :
        (world[e].res # "none" /\ Unresolved(frags[world[e].frag])) =>
            (world[e].res = "Err" /\ world[e].comps = NoComponents)

\* C16: a failed attach attached exactly the present aspects that come
\* before the failing one in the fixed order, and none after it.
C16_FailureStopsNoRollback ==
    \A e \in Entities :
        world[e].res = "Err" =>
            LET self == frags[world[e].frag]
            IN /\ world[e].failed \in Present(self)
               /\ DOMAIN world[e].comps =
                      {a \in Present(self) : Rank(a) < Rank(world[e].failed)}

\* a failure with aspects attached before it and aspects missing after it
C16_Witness ==
    \E e \in Entities :
        /\ world[e].res = "Err"
        /\ world[e].comps # NoComponents
        /\ \E a \in Present(frags[world[e].frag]) :
               Rank(a) > Rank(world[e].failed) /\ a \notin DOMAIN world[e].comps

\* C17: an attach, succeeding or failing, changes neither the fragments nor
\* the material cache, so successful attaches of one fragment give every
\* entity the same components.
C17_AttachOnlyReads ==
    [][world' # world =>
          /\ frags' = frags
          /\ mat_set' = mat_set
          /\ \A d, e \in Entities :
                (/\ world'[d].res = "Ok" /\ world'[e].res = "Ok"
                 /\ world'[d].frag = world'[e].frag)
                => world'[d].comps = world'[e].comps]_vars

\* one fragment with a mesh handle attached to two entities
C17_Witness ==
    \E d, e \in Entities :
        /\ d # e
        /\ world[d].res = "Ok" /\ world[e].res = "Ok"
        /\ world[d].frag = world[e].frag
        /\ "mesh_handle" \in DOMAIN world[d].comps
        /\ mat_set # EmptyMap

\* no coordinate is NaN
NoNaN(x) == \A i \in Axes : x.start[i] # NaN /\ x.end[i] # NaN

\* start <= end on every axis
ValidRange(r) == \A i \in Axes : Le(r.start[i], r.end[i])

\* a contains b: a.start <= b.start and b.end <= a.end on every axis
Contains(a, b) ==
    \A i \in Axes : Le(a.start[i], b.start[i]) /\ Le(b.end[i], a.end[i])

\* the last step was self.extend(&other): ext_self = merge(ext_prev, other)
Merged == ext_other.kind = "extent"

\* merge(A, B) = merge(B, A), with A = ext_prev and B = the merged extent
Commutes == ext_self = extend(ext_other.val, ext_prev)

\* merge(merge(A, B), c) = merge(A, merge(B, c))
Associates(c) ==
    extend(ext_self, c) = extend(ext_prev, extend(ext_other.val, c))

\* merging an extent contained in A leaves A unchanged
Absorbs == Contains(ext_prev, ext_other.val) => ext_self = ext_prev

\* C18 (as stated): for all extents, merge is commutative, associative and
\* idempotent.
C18_MergeLawsAllExtents ==
    Merged =>
        /\ Commutes
        /\ \A c \in AxisExtents(ext_axis) : Associates(c)
        /\ Absorbs

\* C18 (amended): merge is commutative, associative and idempotent on the
\* extents that have no NaN coordinate.
C18_MergeLaws ==
    (Merged /\ NoNaN(ext_prev) /\ NoNaN(ext_other.val)) =>
        /\ Commutes
        /\ \A c \in AxisExtents(ext_axis) : NoNaN(c) => Associates(c)
        /\ Absorbs

\* two valid extents, neither containing the other, merged into a third
C18_Witness ==
    /\ Merged /\ NoNaN(ext_prev) /\ NoNaN(ext_other.val)
    /\ valid(ext_prev) /\ valid(ext_other.val)
    /\ ext_self # ext_prev /\ ext_self # ext_other.val

DefaultInvalid ==
    /\ ~valid(DefaultExtent)
    /\ (ext_other.kind = "none" /\ ext_self = DefaultExtent) => ~valid(ext_self)

\* a valid extent stays valid under a merge
StaysValid == valid(ext_self) => valid(ext_self')

\* C20 (as stated): the default extent is invalid; merging a valid range or
\* extent into any extent gives a valid extent that contains it, and a valid
\* extent stays valid under every merge.
C20_ValidAfterMergeAnyExtent ==
    /\ []DefaultInvalid
    /\ [][/\ ValidRange(ext_other'.val) =>
                (valid(ext_self') /\ Contains(ext_self', ext_other'.val))
          /\ StaysValid]_vars

\* C20 (amended): the same, for merges into an extent without NaN
\* coordinates.
C20_ValidAfterMerge ==
    /\ []DefaultInvalid
    /\ [][/\ (ValidRange(ext_other'.val) /\ NoNaN(ext_self)) =>
                (valid(ext_self') /\ Contains(ext_self', ext_other'.val))
          /\ StaysValid]_vars

\* a valid range merged into an invalid extent made it valid
C20_Witness ==
    /\ ext_other.kind = "range" /\ ValidRange(ext_other.val)
    /\ NoNaN(ext_prev) /\ ~valid(ext_prev)
    /\ valid(ext_self) /\ Contains(ext_self, ext_other.val)

\* the call on f failed in the animation step
FailedInAnimation(f) ==
    last'.frag = f /\ last'.res = "Err" /\ ~FailedInMaterials(f)

\* C25: once a fragment's material slot is populated, no later pass changes
\* it.
C25_PopulatedSlotKept ==
    [][\A f \in Frags :
          frags[f].material # {} => frags'[f].material = frags[f].material]_vars

\* C26: the pass of the owning fragment consumes its material set, and a
\* pass on a fragment that owns no set leaves the cache as it was; once the
\* set is consumed no pass of the load writes the cache.
C26_CacheWrittenOnce ==
    [][/\ \A f \in Frags : last'.frag = f =>
              /\ frags'[f].materials = {}
              /\ frags[f].materials = {} => mat_set' = mat_set
       /\ (\A f \in Frags : frags[f].materials = {}) => mat_set' = mat_set]_vars

\* a fragment that owns no set was resolved from the set another fragment
\* published before
C26_Witness ==
    \E f, g \in Frags :
        /\ last.frag = f
        /\ start.frags[f].materials = {}
        /\ start.frags[g].materials # {} /\ frags[g].materials = {}
        /\ mat_set # EmptyMap
        /\ \E m \in frags[f].material : m.origin = g

\* C27: a successful pass on the owner of a material set returns false only
\* when no material of the set has resolution work left.
C27_MaterialKeepsResolving ==
    \A f \in Frags :
        (last = [frag |-> f, res |-> "Ok_false"] /\ start.frags[f].materials # {})
        => \A i \in DOMAIN mat_set :
               mat_set[i].origin = f => mat_set[i].pending = 0

\* C28: a failure of the animation leaves the steps before it in place: raw
\* mesh data was submitted and replaced by the handle, the fragment's set was
\* consumed and stays published; a call without raw data submits nothing.
C28_LateFailureNoRollback ==
    [][\A f \in Frags :
          /\ FailedInAnimation(f) =>
                /\ frags[f].mesh # {} =>
                      /\ frags'[f].mesh = {}
                      /\ frags'[f].mesh_handle # {}
                      /\ submitted'[f] = submitted[f] + 1
                /\ frags[f].materials # {} =>
                      /\ frags'[f].materials = {}
                      /\ DOMAIN mat_set' = DOMAIN OwnedSet(frags[f])
          /\ (last'.frag = f /\ frags[f].mesh = {}) =>
                (submitted' = submitted /\ frags'[f].mesh = {})]_vars

\* the animation failed in the pass that submitted the mesh and published
\* the set
C28_Witness ==
    \E f \in Frags :
        /\ last = [frag |-> f, res |-> "Err"]
        /\ start.frags[f].mesh # {} /\ frags[f].mesh = {}
        /\ frags[f].mesh_handle # {} /\ submitted[f] = 1
        /\ start.frags[f].materials # {} /\ frags[f].materials = {}
        /\ mat_set # EmptyMap
        /\ DOMAIN mat_set = DOMAIN OwnedSet(start.frags[f])
        /\ frags[f].animatable = start.frags[f].animatable
        /\ frags[f].animatable # {}

\* the extent with corners (-1,-1,-1) and (1,1,1)
UnitCube == [start |-> FromElement(0 - 1), end |-> FromElement(1)]

\* the largest of the three axis distances of an extent
LargestDistance(e) ==
    CHOOSE m \in {e.end[i] - e.start[i] : i \in Axes} :
        \A i \in Axes : e.end[i] - e.start[i] <= m

\* C21: centroid() is (start + end) / 2 and distance() is end - start on
\* every axis; after scale_to(max_size) the scale is max_size divided by the
\* largest axis distance on all three axes; for the corners (-1,-1,-1) and
\* (1,1,1): centroid (0,0,0), distance (2,2,2), and scale 2 after scale_to(4).
C21_CentroidDistanceScale ==
    \A f \in Frags : \A e \in frags[f].extent :
        /\ \A i \in Axes :
              /\ centroid(e)[i] = Quot(e.start[i] + e.end[i], 2)
              /\ distance(e)[i] = e.end[i] - e.start[i]
        /\ (moved.op = "scale_to" /\ moved.frag = f) =>
              \E tr \in frags[f].transform :
                  \A i \in Axes :
                      tr.scale[i] = Quot(moved.max_distance, LargestDistance(e))
        /\ e = UnitCube =>
              /\ centroid(e) = FromElement(Num(0))
              /\ distance(e) = FromElement(2)
              /\ (moved.op = "scale_to" /\ moved.frag = f /\ moved.max_distance = 4) =>
                    \E tr \in frags[f].transform : tr.scale = FromElement(Num(2))

\* scale_to(4) on the fragment with corners (-1,-1,-1) and (1,1,1)
C21_Witness ==
    \E f \in Frags :
        /\ frags[f].extent = {UnitCube}
        /\ moved.op = "scale_to" /\ moved.frag = f /\ moved.max_distance = 4
        /\ \E tr \in frags[f].transform : tr.scale = FromElement(Num(2))

\* C22: after move_to(target) on a fragment with an extent, the extent's
\* centroid plus the fragment's translation is target.
C22_CentroidLandsAtTarget ==
    \A f \in Frags : \A e \in frags[f].extent :
        (moved.op = "move_to" /\ moved.frag = f) =>
            \E tr \in frags[f].transform :
                \A i \in Axes :
                    QAdd(centroid(e)[i], tr.translation[i]) = Num(moved.target[i])

\* C23: a fragment without an extent is left as it was by move_to and
\* scale_to: every field is unchanged, an absent transform stays absent.
C23_NoExtentNoOp ==
    \A f \in Frags :
        frags[f].extent = {} =>
            (frags[f] = start.frags[f] /\ start.frags[f].extent = {})

\* a call made on a fragment that has neither an extent nor a transform
C23_Witness ==
    \E f \in Frags :
        /\ frags[f].extent = {} /\ frags[f].transform = {}
        /\ moved.frag = f /\ moved.op = "move_to"

\* C24: a set scene_index is loaded; else the file's default scene; else the
\* only scene of a file with exactly one; else the load fails as ambiguous.
\* Every combination of inputs gets exactly one of the four outcomes.
C24_SceneSelection ==
    scene.outcome # "none" =>
        /\ scene.outcome \in {"loaded", "ambiguous"}
        /\ (scene.outcome = "loaded") <=> (scene.loaded # {})
        /\ IF scene.scene_index # {}
           THEN scene.loaded = scene.scene_index
           ELSE IF scene.default_scene # {}
                THEN scene.loaded = scene.default_scene
                ELSE IF scene.scenes = 1
                     THEN scene.loaded = {0}
                     ELSE scene.outcome = "ambiguous"

\* a file with several scenes, no default and no index: ambiguous
C24_Witness ==
    /\ scene.outcome = "ambiguous"
    /\ scene.scenes >= 2 /\ scene.scene_index = {} /\ scene.default_scene = {}

\* the step is a rebuild call
IsRebuild == graph'.op = "rebuild" /\ graph'.calls = graph.calls + 1

C38_ExtendRangeIsExtend ==
    ext_other.kind = "range" =>
        ext_self = extend(ext_prev, from(ext_other.val))

\* a range that moved both corners of an extent
C38_Witness ==
    /\ ext_other.kind = "range"
    /\ ext_self.start # ext_prev.start
    /\ ext_self.end # ext_prev.end

\* C36: update creates the scene entity at most once: on the first update
\* that sees the tracker Complete, after which the tracker is dropped; while
\* the tracker is Loading nothing is created; when it is Failed update
\* returns Quit and creates nothing.
C36_SceneEntityOnce ==
    /\ [](example.created <= 1)
    /\ [][example'.op = "update" =>
            /\ example.progress = {"Complete"} =>
                 /\ example'.created = example.created + 1
                 /\ example'.progress = {}
            /\ example.progress = {"Loading"} =>
                 /\ example'.created = example.created
                 /\ example'.progress = example.progress
            /\ example.progress = {"Failed"} =>
                 /\ example'.ret = "Quit"
                 /\ example'.created = example.created]_vars

\* the scene entity was created, the tracker is dropped, updates go on
C36_Witness ==
    /\ example.created = 1 /\ example.progress = {}
    /\ example.op = "update" /\ example.initialised

\* the call acts: an entity with an animation set, the index below the count
Cycles == example.entity # {} /\ example.has_set
          /\ example.animation_index < example.count

SetThenUnset ==
    /\ ui.ev2 # {} /\ ui.ev # {}
    /\ \E c \in EventColors :
         /\ ui.ev2 = {[event_type |-> "SetTextColor", value |-> c, target |-> Button]}
         /\ ui.ev = {[event_type |-> "UnsetTextColor", value |-> c, target |-> Button]}
    /\ \A p \in ui.prev2 : Button \notin DOMAIN p.set_text_colors

\* C31: SetTextColor(c) followed by UnsetTextColor(c) on the same target
\* restores every text child to the colour it had before the set and leaves
\* no tracking entry for the target, whatever the number of text children.
C31_SetUnsetRestores ==
    SetThenUnset =>
        /\ \A p \in ui.prev2 : ui.text = p.text
        /\ Button \notin DOMAIN ui.set_text_colors

\* the handle set last among the handles with a set not yet unset, or the
\* image of the start when there is none
ExpectedImage ==
    LET live == {i \in 1 .. Len(ui.tex_log) : ui.tex_out[ui.tex_log[i]] > 0}
    IN IF live = {}
       THEN ui.image0
       ELSE {ui.tex_log[CHOOSE i \in live : \A j \in live : j <= i]}

\* C32: after any sequence of SetTexture and UnsetTexture events on a target
\* with an image, the image is the most recently set handle that is not yet
\* unset, and the handle of before the first set once every set is unset.
C32_ImageIsLatestSet ==
    ui.image0 # {} => ui.image = ExpectedImage

\* a handle set, another set, the first set again and unset once: both
\* have a set that is not unset, and the image is the one set last
C32_Witness ==
    /\ ui.image0 # {}
    /\ Len(ui.tex_log) = 3
    /\ ui.tex_log[1] = ui.tex_log[3] /\ ui.tex_log[1] # ui.tex_log[2]
    /\ ui.tex_out[ui.tex_log[1]] = 1 /\ ui.tex_out[ui.tex_log[2]] = 1
    /\ ui.image = {ui.tex_log[3]}

\* the last event handled was an unset of the given type
LastWas(event_type) == \E e \in ui.ev : e.event_type = event_type

\* C33: an UnsetTexture or UnsetTextColor event for a target without tracked
\* changes leaves the image, the text colours and both maps as they were.
C33_UnsetUntrackedIsNoOp ==
    /\ LastWas("UnsetTexture") =>
          \A p \in ui.prev :
             Button \notin DOMAIN p.set_textures => Snapshot(ui) = p
    /\ LastWas("UnsetTextColor") =>
          \A p \in ui.prev :
             Button \notin DOMAIN p.set_text_colors => Snapshot(ui) = p

\* an unset handled after every set had been unset, on a target with an
\* image and a text
C33_Witness ==
    /\ LastWas("UnsetTexture")
    /\ ui.image0 # {} /\ Len(ui.tex_log) > 0
    /\ HasText(ui)
    /\ \A p \in ui.prev : Button \notin DOMAIN p.set_textures

\* the sets of any value not yet unset
NotUnset(out) == \E v \in DOMAIN out : out[v] > 0

\* C34: after each event no tracking map holds an entry with an empty stack,
\* and a target has an entry exactly while a set on it is not yet unset.
C34_NoEmptyEntries ==
    /\ \A t \in DOMAIN ui.set_textures : ~is_empty(ui.set_textures[t])
    /\ \A t \in DOMAIN ui.set_text_colors : ~is_empty(ui.set_text_colors[t])
    /\ (Button \in DOMAIN ui.set_textures) <=> NotUnset(ui.tex_out)
    /\ (Button \in DOMAIN ui.set_text_colors) <=> NotUnset(ui.col_out)

\* an entry was made and taken away again, another is still kept
C34_Witness ==
    /\ LastWas("UnsetTexture")
    /\ Len(ui.tex_log) > 0 /\ Button \notin DOMAIN ui.set_textures
    /\ Button \in DOMAIN ui.set_text_colors

\* C35: run before setup panics on the missing reader, reads no event and
\* changes no component; after setup every event written is handled by run
\* exactly once, in the order of the channel.
C35_SetupThenEveryEventOnce ==
    [][ui'.op \in {"run", "panic"} =>
          IF ui.event_reader = {}
          THEN ui' = [ui EXCEPT !.op = "panic"]
          ELSE /\ ui'.op = "run"
               /\ ui'.done = ui.pending
               /\ ui'.pending = <<>>]_vars

\* a run that handled several events
C35_Witness ==
    /\ ui.op = "run" /\ Len(ui.done) >= 2
    /\ ui.done[1] # ui.done[2]

====
